---- MODULE Spec2Model ----
(***************************************************************************)
(* A model of the wml runtime's AppView (src/src/index.ts): the identifier *)
(* and group registries, the widget list, the render pass and invalidate,  *)
(* together with the part of the DOM they act on (a host container, the    *)
(* rendered root and document fragments).                                  *)
(*                                                                         *)
(* A render pass is modelled step by step: the reset, the removed hooks,   *)
(* the template's calls to node()/widget()/text(), the value the template  *)
(* returns, the rendered hooks and the return.  Widget hooks are those of  *)
(* Component: they do nothing to the view.  Identifiers are ordinary       *)
(* names (no name of Object.prototype).                                    *)
(***************************************************************************)
EXTENDS Integers, Sequences, FiniteSets, TLC

\* The number of objects (nodes, fragments, widgets) a behaviour allocates.
MaxObjects == 4

\* The number of node()/widget()/text() calls one template evaluation makes
\* before it returns its top-level Content.
MaxCalls == 2

VARIABLES
    ids,        \* AppView.ids: identifier -> WMLElement
    groups,     \* AppView.groups: group name -> WMLElement[]
    widgets,    \* AppView.widgets
    tree,       \* AppView.tree
    fragRoot,   \* AppView._fragRoot
    host,       \* child nodes of the external host container
    kids,       \* child nodes of every document fragment built so far
    pc,         \* where the running call is: idle, removed, template, rendered
    caller,     \* the outermost running call: none, render, invalidate
    i,          \* index of the running forEach over widgets
    inv,        \* locals of the running invalidate()
    built,      \* nodes the running template evaluation has built
    next,       \* number of objects allocated
    ret,        \* outcome of the last finished call
    outgoing,   \* history: the widget list the running/last pass started with
    log,        \* history: hook calls, constructions and registrations of the pass
    removedCnt, \* history: number of removed() calls per widget
    renderedCnt,\* history: number of rendered() calls per widget
    lastReg,    \* history: the register() call of the last step, if any
    roots,      \* history: the top-level nodes of tree when it was produced
    retired,    \* history: the widgets some earlier pass left in the list
    passOk,     \* history: the last render pass ran to completion
    nest,       \* the child view of the Component whose render() is running
    h,          \* a call of an expression helper or builder: input and result
    context,    \* the context the view was constructed with
    stack       \* the loops of render() suspended in a hook that re-entered

vars == <<ids, groups, widgets, tree, fragRoot, host, kids, pc, caller, i, inv,
          built, next, ret, outgoing, log, removedCnt, renderedCnt, lastReg,
          roots, retired, passOk, nest, h, context, stack>>

\* What the view's own operations leave alone.
aux == <<nest, h, context, stack>>

\* What a helper call on its own leaves alone.
view == <<ids, groups, widgets, tree, fragRoot, host, kids, pc, caller, i, inv,
          built, next, ret, outgoing, log, removedCnt, renderedCnt, lastReg,
          roots, retired, passOk, nest, context, stack>>

----------------------------------------------------------------------------
\* Values

\* An object: a DOM node, a document fragment or a widget instance.
Obj(t, k) == [type |-> t, n |-> k]

\* undefined / null
Absent == Obj("absent", 0)

\* The host container, as a parent.
Host == Obj("host", 0)

\* The children the host holds beside anything the view contributes.
Siblings == <<Obj("sibling", -1), Obj("sibling", -2)>>

\* Identifiers and group names templates use ("" is an unset attribute).
Ids == {"root", "a"}

Groups == {"g"}

\* The wml attributes of the template's node() calls ...
NodeAttrs == {[id |-> "a", group |-> ""], [id |-> "root", group |-> ""],
              [id |-> "", group |-> "g"]}

\* ... and of its widget() calls.
WidgetAttrs == {[id |-> "", group |-> ""], [id |-> "a", group |-> "g"]}

\* What the template returns: one element, one text node, a fragment holding
\* the nodes it built, or nothing.
Shapes == {"element", "text", "fragment", "absent"}

EmptyMap == [x \in {} |-> Absent]

NoReg == [id |-> "", val |-> Absent, had |-> FALSE, prev |-> Absent,
          threw |-> FALSE, returned |-> "none"]

NoInv == [parent |-> Absent, real |-> Absent, hostBefore |-> <<>>,
          rootsBefore |-> <<>>, treeBefore |-> Absent]

\* The outcome of a call: the error thrown, if any, and where the call was:
\* in invalidate's checks, in the render pass, or at replaceChild.
Outcome(op, err, stage) == [op |-> op, err |-> err, stage |-> stage]

NoRet == Outcome("none", "none", "none")

\* History events: a hook call, a construction or the template's return ...
Event(e, x) == [ev |-> e, x |-> x, id |-> ""]

\* ... and a registration under an identifier or a group name.
NamedEvent(e, name, x) == [ev |-> e, x |-> x, id |-> name]

Range(s) == {s[k] : k \in 1..Len(s)}

\* No Component is rendering a child view.
NoNest == [pc |-> "none", owner |-> Absent, widgets |-> <<>>, i |-> 0,
           views |-> [x \in {} |-> <<>>]]

\* The context handed to the view's constructor, and the view as an argument.
Context == Obj("context", 0)

This == "this"

\* No helper call.
NoCall == [fn |-> "none"]

----------------------------------------------------------------------------
\* AppView's registries (index.ts 449-479)

\* register without the duplicate check: a later registration overwrites.
register_overwrite(m, id, x) ==
    [ok |-> TRUE, ids |-> (id :> x) @@ m]

\* register(id, w): throws when ids has the own property id, else sets it.
\* ok = FALSE stands for the thrown Error("Duplicate id ...").
register(m, id, x) ==
    IF id \in DOMAIN m
    THEN [ok |-> FALSE, ids |-> m]
    ELSE [ok |-> TRUE, ids |-> (id :> x) @@ m]

\* A registerGroup that keeps an element once per group.
registerGroup_unique(g, name, e) ==
    IF name \in DOMAIN g /\ e \in Range(g[name]) THEN g
    ELSE (name :> Append(IF name \in DOMAIN g THEN g[name] ELSE <<>>, e)) @@ g

\* registerGroup(group, e): this.groups[group] = this.groups[group] || [],
\* then push.
registerGroup(g, name, e) ==
    (name :> Append(IF name \in DOMAIN g THEN g[name] ELSE <<>>, e)) @@ g

\* findById(id): this.ids[id] when truthy, else null.
findById(m, id) ==
    IF id \in DOMAIN m /\ m[id] # Absent THEN m[id] ELSE Absent

\* findGroupByName(name): the group's array when there is one, else [].
findGroupByName(g, name) ==
    IF name \in DOMAIN g THEN g[name] ELSE <<>>

\* this.ids['root'] = (this.ids['root']) ? this.ids['root'] : this.tree, with
\* the assignment left out.
rootAssign_never(m, t) == m

\* this.ids['root'] = this.tree, whatever the template registered.
rootAssign_always(m, t) == ("root" :> t) @@ m

\* this.ids['root'] = (this.ids['root']) ? this.ids['root'] : this.tree
rootAssign(m, t) ==
    IF "root" \in DOMAIN m /\ m["root"] # Absent
    THEN m
    ELSE ("root" :> t) @@ m

----------------------------------------------------------------------------
\* The DOM the view acts on

IsElement(x) == x.type \in {"element", "sibling"}

IsNode(x) == x.type \in {"element", "sibling", "text"}

\* Node.childNodes of a parent (the host or a fragment).
childNodes(p) == IF p = Host THEN host ELSE kids[p.n]

\* ParentNode.children: the child nodes that are elements.
children(p) == SelectSeq(childNodes(p), IsElement)

\* Node.parentNode: a fragment has none; a node's parent is the container
\* holding it.
parentNode(x) ==
    IF x \in Range(host) THEN Host
    ELSE IF \E f \in DOMAIN kids : x \in Range(kids[f])
         THEN Obj("fragment", CHOOSE f \in DOMAIN kids : x \in Range(kids[f]))
         ELSE Absent

\* Node.firstChild of a fragment.
firstChild(f) == IF kids[f.n] = <<>> THEN Absent ELSE Head(kids[f.n])

\* The nodes inserting c somewhere inserts: a fragment stands for its children.
Inserted(c) == IF c.type = "fragment" THEN kids[c.n] ELSE <<c>>

Without(s, xs) == SelectSeq(s, LAMBDA y : y \notin Range(xs))

Index(s, x) == CHOOSE k \in 1..Len(s) : s[k] = x

\* s with the element at position k replaced by the sequence xs.
Splice(s, k, xs) == SubSeq(s, 1, k - 1) \o xs \o SubSeq(s, k + 1, Len(s))

\* s with xs inserted after its first k elements.
InsertAt(s, k, xs) == SubSeq(s, 1, k) \o xs \o SubSeq(s, k + 1, Len(s))

----------------------------------------------------------------------------
\* Initial state: a constructed AppView (index.ts 440-447) beside a host
\* container that holds two nodes of its own.

InitView ==
    /\ ids = EmptyMap
    /\ groups = EmptyMap
    /\ widgets = <<>>
    /\ tree = Absent
    /\ fragRoot = Absent
    /\ host = Siblings
    /\ kids = EmptyMap
    /\ pc = "idle"
    /\ caller = "none"
    /\ i = 0
    /\ inv = NoInv
    /\ built = <<>>
    /\ next = 0
    /\ ret = NoRet
    /\ outgoing = <<>>
    /\ log = <<>>
    /\ removedCnt = EmptyMap
    /\ renderedCnt = EmptyMap
    /\ lastReg = NoReg
    /\ roots = <<>>
    /\ retired = {}
    /\ passOk = FALSE
    /\ nest = NoNest
    /\ context = Context
    /\ stack = <<>>

Init == InitView /\ h = NoCall

Bump(cnt, w) == (w.n :> (IF w.n \in DOMAIN cnt THEN cnt[w.n] ELSE 0) + 1) @@ cnt

Count(cnt, w) == IF w.n \in DOMAIN cnt THEN cnt[w.n] ELSE 0

\* An exception caught and dropped inside the view: the call returns as if
\* nothing had happened.
Throw_swallowed(kind) ==
    /\ pc' = "idle"
    /\ caller' = "none"
    /\ ret' = Outcome(caller, "none", "render")
    /\ UNCHANGED inv

\* An exception leaves the running call: the call stack unwinds to the caller
\* of render()/invalidate().
Throw(kind) ==
    /\ pc' = "idle"
    /\ caller' = "none"
    /\ ret' = Outcome(caller, kind, "render")
    /\ UNCHANGED inv

----------------------------------------------------------------------------
\* render() (index.ts 509-525)

\* A forEach that visits the array from its end.
forEachItem_reversed(ws, k) == ws[Len(ws) + 1 - k]

\* Array.prototype.forEach visits the array in index order: the k-th callback
\* gets the k-th element.
forEachItem(ws, k) == ws[k]

\* this.widgets = [] left out: the list keeps the outgoing widgets.
resetWidgets_keep(ws) == ws

\* this.widgets = []
resetWidgets(ws) == <<>>

\* The first statement of render(), this.ids = {}, and the entry into the
\* forEach that calls removed().
StartRender(c) ==
    /\ ids' = EmptyMap
    /\ pc' = "removed"
    /\ i' = 1
    /\ caller' = c
    /\ outgoing' = widgets
    /\ retired' = retired \cup Range(widgets)
    /\ log' = <<>>
    /\ passOk' = FALSE
    /\ built' = <<>>
    /\ lastReg' = NoReg
    /\ ret' = NoRet
    /\ UNCHANGED <<groups, widgets, tree, fragRoot, host, kids, next,
                   removedCnt, renderedCnt, roots>>

\* A template called as a method of the context, without arguments.
templateCall_onContext(this, c) == NamedEvent("template", "", Absent)

\* this.template(this, this.context): the call, with its two arguments.
templateCall(this, c) == NamedEvent("template", this, c)

\* A caller calls view.render().
Render ==
    /\ pc = "idle"
    /\ next < MaxObjects
    /\ StartRender("render")
    /\ inv' = NoInv
    /\ UNCHANGED aux

\* this.widgets.forEach(w => w.removed()): one callback.
RemovedStep ==
    /\ pc = "removed"
    /\ i <= Len(widgets)
    /\ log' = Append(log, Event("removed", forEachItem(widgets, i)))
    /\ removedCnt' = Bump(removedCnt, forEachItem(widgets, i))
    /\ i' = i + 1
    /\ lastReg' = NoReg
    /\ UNCHANGED <<ids, groups, widgets, tree, fragRoot, host, kids, pc, caller,
                   inv, built, next, ret, outgoing, renderedCnt, roots, retired, passOk>>
    /\ UNCHANGED aux

\* The forEach is over: this.widgets = []; this._fragRoot = null; and the
\* template is entered.
RemovedDone ==
    /\ pc = "removed"
    /\ i > Len(widgets)
    /\ widgets' = resetWidgets(widgets)
    /\ fragRoot' = Absent
    /\ pc' = "template"
    /\ i' = 0
    /\ lastReg' = NoReg
    /\ log' = Append(log, templateCall(This, context))
    /\ UNCHANGED <<ids, groups, tree, host, kids, caller, inv, built, next,
                   ret, outgoing, removedCnt, renderedCnt, roots, retired, passOk>>
    /\ UNCHANGED aux

\* The history of a register(id, x) call made on the registry m.
RegCall(m, id, x, r) ==
    [id |-> id, val |-> x, had |-> id \in DOMAIN m, prev |-> findById(m, id),
     threw |-> ~r.ok, returned |-> IF r.ok THEN "view" ELSE "none"]

\* if (id) view.register(id, e)
MaybeRegister(m, id, x) ==
    IF id # "" THEN register(m, id, x) ELSE [ok |-> TRUE, ids |-> m]

\* if (group) view.registerGroup(group, e)
MaybeRegisterGroup(g, name, x) ==
    IF name # "" THEN registerGroup(g, name, x) ELSE g

\* History: the registrations a node() or widget() call with attributes a
\* makes for x when none of them throws.
Registrations(a, x) ==
    (IF a.id # "" THEN <<NamedEvent("register", a.id, x)>> ELSE <<>>)
    \o (IF a.group # "" THEN <<NamedEvent("registerGroup", a.group, x)>> ELSE <<>>)

\* The template calls node(tag, attributes, children, view) (index.ts 267-308)
\* for an element below the top level.
TplNode(a) ==
    /\ pc = "template"
    /\ Len(built) + Len(widgets) < MaxCalls
    /\ next + 1 < MaxObjects
    /\ LET e == Obj("element", next + 1)
           r == MaybeRegister(ids, a.id, e)
       IN /\ next' = next + 1
          /\ lastReg' = IF a.id # "" THEN RegCall(ids, a.id, e, r) ELSE NoReg
          /\ ids' = r.ids
          /\ IF r.ok
             THEN /\ groups' = MaybeRegisterGroup(groups, a.group, e)
                  /\ built' = Append(built, e)
                  /\ log' = log \o <<Event("node", e)>> \o Registrations(a, e)
                  /\ UNCHANGED <<pc, caller, inv, ret>>
             ELSE /\ Throw("DuplicateIdentifier")
                  /\ UNCHANGED <<groups, built, log>>
    /\ UNCHANGED <<widgets, tree, fragRoot, host, kids, i, outgoing,
                   removedCnt, renderedCnt, roots, retired, passOk>>
    /\ UNCHANGED aux

\* view.widgets.push(w) left out.
pushWidget_skip(ws, w) == ws

\* view.widgets.push(w)
pushWidget(ws, w) == Append(ws, w)

\* The template calls widget(Constructor, attributes, children, view)
\* (index.ts 328-356): new Constructor, register, registerGroup, push, and
\* w.render(), which for a widget with no view of its own leaves the view alone.
TplWidget(a) ==
    /\ pc = "template"
    /\ Len(built) + Len(widgets) < MaxCalls
    /\ next + 1 < MaxObjects
    /\ LET w == Obj("widget", next + 1)
           r == MaybeRegister(ids, a.id, w)
       IN /\ next' = next + 1
          /\ lastReg' = IF a.id # "" THEN RegCall(ids, a.id, w, r) ELSE NoReg
          /\ ids' = r.ids
          /\ log' = log \o <<Event("construct", w)>>
                        \o (IF r.ok THEN Registrations(a, w) ELSE <<>>)
          /\ IF r.ok
             THEN /\ groups' = MaybeRegisterGroup(groups, a.group, w)
                  /\ widgets' = pushWidget(widgets, w)
                  /\ UNCHANGED <<pc, caller, inv, ret>>
             ELSE /\ Throw("DuplicateIdentifier")
                  /\ UNCHANGED <<groups, widgets>>
    /\ UNCHANGED <<tree, fragRoot, host, kids, i, built, outgoing,
                   removedCnt, renderedCnt, roots, retired, passOk>>
    /\ UNCHANGED aux

\* The template calls text(value) (index.ts 260-261).
TplText ==
    /\ pc = "template"
    /\ Len(built) + Len(widgets) < MaxCalls
    /\ next + 1 < MaxObjects
    /\ next' = next + 1
    /\ built' = Append(built, Obj("text", next + 1))
    /\ lastReg' = NoReg
    /\ UNCHANGED <<ids, groups, widgets, tree, fragRoot, host, kids, pc, caller,
                   i, inv, ret, outgoing, log, removedCnt, renderedCnt, roots,
                   retired, passOk>>
    /\ UNCHANGED aux

\* The top-level Content the template returns: a fresh element, text node or
\* fragment (holding the nodes built so far, as box() and forE() compose
\* them), or nothing.
Produced(shape) ==
    IF shape = "absent" THEN Absent ELSE Obj(shape, next + 1)

\* this._fragRoot = this.tree.firstChild when the tree is a fragment.
fragRootOf(t, old) ==
    IF t.type = "fragment"
    THEN (IF built = <<>> THEN Absent ELSE Head(built))
    ELSE old

\* The template returns: this.tree = this.template(this, this.context), the
\* assignment of ids['root'] and of _fragRoot (index.ts 515-519).  Reading
\* nodeName of an absent tree throws a TypeError.
TplReturn(shape) ==
    /\ pc = "template"
    /\ LET t == Produced(shape)
       IN /\ tree' = t
          /\ ids' = rootAssign(ids, t)
          /\ next' = IF t = Absent THEN next ELSE next + 1
          /\ kids' = IF shape = "fragment" THEN (t.n :> built) @@ kids ELSE kids
          /\ roots' = IF shape = "fragment" THEN built
                      ELSE IF t = Absent THEN <<>> ELSE <<t>>
          /\ IF t = Absent
             THEN /\ Throw("TypeError")
                  /\ UNCHANGED <<fragRoot, i, log>>
             ELSE /\ fragRoot' = fragRootOf(t, fragRoot)
                  /\ pc' = "rendered"
                  /\ i' = 1
                  /\ log' = Append(log, Event("tree", t))
                  /\ UNCHANGED <<caller, inv, ret>>
    /\ lastReg' = NoReg
    /\ UNCHANGED <<groups, widgets, host, built, outgoing, removedCnt,
                   renderedCnt, retired, passOk>>
    /\ UNCHANGED aux

\* this.widgets.forEach(w => w.rendered()): one callback.
RenderedStep ==
    /\ pc = "rendered"
    /\ i <= Len(widgets)
    /\ log' = Append(log, Event("rendered", forEachItem(widgets, i)))
    /\ renderedCnt' = Bump(renderedCnt, forEachItem(widgets, i))
    /\ i' = i + 1
    /\ lastReg' = NoReg
    /\ UNCHANGED <<ids, groups, widgets, tree, fragRoot, host, kids, pc, caller,
                   inv, built, next, ret, outgoing, removedCnt, roots, retired, passOk>>
    /\ UNCHANGED aux

\* parent.replaceChild(newChild, oldChild): the error it throws, if any.
replaceChildError(parent, old) ==
    IF old = Absent THEN "TypeError"
    ELSE IF parentNode(old) # parent THEN "NotFoundError"
    ELSE "none"

\* The children of parent after parent.replaceChild(newChild, old).
replaceChild(parent, newChild, old) ==
    Splice(childNodes(parent), Index(childNodes(parent), old), Inserted(newChild))

\* return this.tree.  To the caller of render(), or back in invalidate(),
\* which ends with parent.replaceChild(this.render(), realFirstChild)
\* (index.ts 505).
RenderReturn ==
    /\ pc = "rendered"
    /\ i > Len(widgets)
    /\ passOk' = TRUE
    /\ pc' = "idle"
    /\ caller' = "none"
    /\ i' = 0
    /\ lastReg' = NoReg
    /\ IF caller = "render"
       THEN /\ ret' = Outcome("render", "none", "done")
            /\ UNCHANGED <<host, kids>>
       ELSE LET e == replaceChildError(inv.parent, inv.real)
                emptied == IF tree.type = "fragment"
                           THEN [kids EXCEPT ![tree.n] = <<>>] ELSE kids
            IN /\ ret' = Outcome("invalidate", e, IF e = "none" THEN "done" ELSE "replace")
               /\ IF e # "none"
                  THEN UNCHANGED <<host, kids>>
                  ELSE IF inv.parent = Host
                       THEN /\ host' = replaceChild(Host, tree, inv.real)
                            /\ kids' = emptied
                       ELSE /\ host' = host
                            /\ kids' = [emptied EXCEPT ![inv.parent.n] =
                                   replaceChild(inv.parent, tree, inv.real)]
    /\ UNCHANGED <<ids, groups, widgets, tree, fragRoot, inv, built, next,
                   outgoing, log, removedCnt, renderedCnt, roots, retired>>
    /\ UNCHANGED aux

----------------------------------------------------------------------------
\* invalidate() (index.ts 481-507)

\* var tree = (this._fragRoot) ? this._fragRoot : this.tree
invalidateTarget == IF fragRoot # Absent THEN fragRoot ELSE tree

\* The statements of invalidate() before the re-render, in their order: the
\* read of tree.parentNode (487), the test tree == null (489) and the test
\* tree.parentNode == null (492).
invalidateError(t) ==
    IF t = Absent THEN "TypeError"
    ELSE IF t = Absent THEN "NotRendered"
    ELSE IF parentNode(t) = Absent THEN "NotAttached"
    ELSE "none"

\* The loop over parent.children that looks the target up (499-503).
realFirstChild(t) ==
    IF t \in Range(children(parentNode(t))) THEN t ELSE Absent

\* An invalidate() that starts the pass before its checks: this.ids = {} and
\* this.widgets = [] have run when the ReferenceError is thrown.
Invalidate_resetFirst ==
    /\ pc = "idle"
    /\ LET t == invalidateTarget
           e == invalidateError(t)
       IN IF e # "none"
          THEN /\ ret' = Outcome("invalidate", e, "check")
               /\ lastReg' = NoReg
               /\ ids' = EmptyMap
               /\ widgets' = resetWidgets(widgets)
               /\ UNCHANGED <<groups, tree, fragRoot, host, kids,
                              pc, caller, i, inv, built, next, outgoing, log,
                              removedCnt, renderedCnt, roots, retired, passOk>>
          ELSE /\ next < MaxObjects
               /\ StartRender("invalidate")
               /\ inv' = [parent |-> parentNode(t), real |-> realFirstChild(t),
                          hostBefore |-> host, rootsBefore |-> roots,
                          treeBefore |-> tree]
    /\ UNCHANGED aux

\* A caller calls view.invalidate().
Invalidate ==
    /\ pc = "idle"
    /\ LET t == invalidateTarget
           e == invalidateError(t)
       IN IF e # "none"
          THEN /\ ret' = Outcome("invalidate", e, "check")
               /\ lastReg' = NoReg
               /\ UNCHANGED <<ids, groups, widgets, tree, fragRoot, host, kids,
                              pc, caller, i, inv, built, next, outgoing, log,
                              removedCnt, renderedCnt, roots, retired, passOk>>
          ELSE /\ next < MaxObjects
               /\ StartRender("invalidate")
               /\ inv' = [parent |-> parentNode(t), real |-> realFirstChild(t),
                          hostBefore |-> host, rootsBefore |-> roots,
                          treeBefore |-> tree]
    /\ UNCHANGED aux

----------------------------------------------------------------------------
\* The environment

\* The embedding code inserts the rendered tree into the host container
\* (host.insertBefore(view.tree, host.childNodes[pos])), once: while the host
\* holds nothing of the view.
Attach(pos) ==
    /\ pc = "idle"
    /\ tree # Absent
    /\ Inserted(tree) # <<>>
    /\ host = Siblings
    /\ host' = InsertAt(host, pos, Inserted(tree))
    /\ kids' = [f \in DOMAIN kids |->
                  IF tree.type = "fragment" /\ f = tree.n THEN <<>>
                  ELSE Without(kids[f], <<tree>>)]
    /\ ret' = Outcome("attach", "none", "done")
    /\ lastReg' = NoReg
    /\ UNCHANGED <<ids, groups, widgets, tree, fragRoot, pc, caller, i, inv,
                   built, next, outgoing, log, removedCnt, renderedCnt, roots,
                   retired, passOk>>
    /\ UNCHANGED aux

Next ==
    \/ Render
    \/ RemovedStep
    \/ RemovedDone
    \/ \E a \in NodeAttrs : TplNode(a)
    \/ \E a \in WidgetAttrs : TplWidget(a)
    \/ TplText
    \/ \E shape \in Shapes : TplReturn(shape)
    \/ RenderedStep
    \/ RenderReturn
    \/ Invalidate
    \/ \E pos \in 0..Len(host) : Attach(pos)

Spec == Init /\ [][Next]_vars

TypeOK ==
    /\ pc \in {"idle", "removed", "template", "rendered"}
    /\ caller \in {"none", "render", "invalidate"}
    /\ next \in 0..MaxObjects
    /\ DOMAIN ids \subseteq Ids
    /\ DOMAIN groups \subseteq Groups

----------------------------------------------------------------------------
\* A Component and its child view (index.ts 110-135): the view's template
\* calls widget() with a Component subclass, whose render() returns
\* this.view.render().  The child view is the Component's own, made with it:
\* an AppView with an empty widget list.  Of the child view the model keeps the
\* widget list and the position of its render(); its hooks are logged with the
\* outer pass's.

\* widget(Component, ...) on the view: new Constructor, push, and w.render(),
\* which enters the child view's render(): no widget to remove, widgets = [],
\* and the child template is entered.
TplComponent ==
    /\ pc = "template"
    /\ nest.pc = "none"
    /\ Len(built) + Len(widgets) < MaxCalls
    /\ next + 1 < MaxObjects
    /\ LET c == Obj("widget", next + 1)
       IN /\ next' = next + 1
          /\ log' = Append(log, Event("construct", c))
          /\ widgets' = pushWidget(widgets, c)
          /\ nest' = [nest EXCEPT !.pc = "template", !.owner = c,
                                  !.widgets = resetWidgets(<<>>), !.i = 0]
    /\ lastReg' = NoReg
    /\ UNCHANGED <<ids, groups, tree, fragRoot, host, kids, pc, caller, i, inv,
                   built, ret, outgoing, removedCnt, renderedCnt, roots,
                   retired, passOk, h, context, stack>>

\* The child template calls widget(Constructor, attributes, children, view)
\* with the child view: the widget joins the child view's list.
NestedWidget ==
    /\ nest.pc = "template"
    /\ Len(nest.widgets) < MaxCalls
    /\ next + 1 < MaxObjects
    /\ next' = next + 1
    /\ log' = Append(log, Event("construct", Obj("widget", next + 1)))
    /\ nest' = [nest EXCEPT !.widgets = pushWidget(@, Obj("widget", next + 1))]
    /\ lastReg' = NoReg
    /\ UNCHANGED <<ids, groups, widgets, tree, fragRoot, host, kids, pc, caller,
                   i, inv, built, ret, outgoing, removedCnt, renderedCnt, roots,
                   retired, passOk, h, context, stack>>

\* The child template returns, and the child view's render() enters
\* this.widgets.forEach(w => w.rendered()).
NestedReturn ==
    /\ nest.pc = "template"
    /\ nest' = [nest EXCEPT !.pc = "rendered", !.i = 1]
    /\ lastReg' = NoReg
    /\ UNCHANGED <<ids, groups, widgets, tree, fragRoot, host, kids, pc, caller,
                   i, inv, built, next, ret, outgoing, log, removedCnt,
                   renderedCnt, roots, retired, passOk, h, context, stack>>

\* The child view's forEach calls rendered() on one of its widgets.
NestedRenderedStep ==
    /\ nest.pc = "rendered"
    /\ nest.i <= Len(nest.widgets)
    /\ log' = Append(log, Event("rendered", forEachItem(nest.widgets, nest.i)))
    /\ renderedCnt' = Bump(renderedCnt, forEachItem(nest.widgets, nest.i))
    /\ nest' = [nest EXCEPT !.i = @ + 1]
    /\ lastReg' = NoReg
    /\ UNCHANGED <<ids, groups, widgets, tree, fragRoot, host, kids, pc, caller,
                   i, inv, built, next, ret, outgoing, removedCnt, roots,
                   retired, passOk, h, context, stack>>

\* The child view's render() returns its tree: Component.render() and then
\* widget() return to the outer template.
NestedDone ==
    /\ nest.pc = "rendered"
    /\ nest.i > Len(nest.widgets)
    /\ nest' = [nest EXCEPT !.pc = "none", !.i = 0,
                            !.views = (nest.owner.n :> nest.widgets) @@ @]
    /\ lastReg' = NoReg
    /\ UNCHANGED <<ids, groups, widgets, tree, fragRoot, host, kids, pc, caller,
                   i, inv, built, next, ret, outgoing, log, removedCnt,
                   renderedCnt, roots, retired, passOk, h, context, stack>>

\* A view whose template uses plain widgets and Components.
NextNested ==
    \/ Render
    \/ RemovedStep
    \/ RemovedDone
    \/ TplComponent
    \/ NestedWidget
    \/ NestedReturn
    \/ NestedRenderedStep
    \/ NestedDone
    \/ nest.pc = "none" /\ \E a \in WidgetAttrs : TplWidget(a)
    \/ nest.pc = "none" /\ \E shape \in Shapes : TplReturn(shape)
    \/ RenderedStep
    \/ RenderReturn

SpecNested == Init /\ [][NextNested]_vars

----------------------------------------------------------------------------
\* JavaScript values the helpers take and return

JS(t, v, n) == [t |-> t, v |-> v, n |-> n, keys |-> <<>>, props |-> <<>>]

Undefined == JS("undefined", "", 0)

Null == JS("null", "", 0)

Str(s) == JS("string", s, 0)

Num(k) == JS("number", "", k)

Bool(b) == JS("boolean", "", IF b THEN 1 ELSE 0)

\* A function value, by name.
Fn(name) == JS("function", name, 0)

\* An object literal: its own keys in enumeration order, and their values.
Object(keys, props) ==
    [t |-> "object", v |-> "", n |-> 0, keys |-> keys, props |-> props]

\* An array: props holds the items, item k of the array at props[k + 1].
Array(items) ==
    [t |-> "array", v |-> "", n |-> Len(items), keys |-> <<>>, props |-> items]

typeof(x) == IF x.t \in {"null", "array", "node"} THEN "object" ELSE x.t

\* (x) ? .. : ..
Truthy(x) ==
    CASE x.t \in {"undefined", "null"} -> FALSE
      [] x.t = "boolean" -> x.n = 1
      [] x.t = "number" -> x.n # 0
      [] x.t = "string" -> x.v # ""
      [] OTHER -> TRUE

\* x != null
NotNull(x) == x.t \notin {"undefined", "null"}

\* `${value}` of a boolean
TemplateString(x) == IF x.n = 1 THEN "true" ELSE "false"

\* o[k]
get(o, k) == IF k \in DOMAIN o.props THEN o.props[k] ELSE Undefined

\* const _empty = document.createDocumentFragment(); empty = () => _empty
empty == Obj("fragment", 0)

\* The state of one helper call: the nodes and fragments made so far (heap,
\* next), the calls made to the functions passed in, the value in hand and
\* the error thrown, if any.
NewCall == [heap |-> (empty.n :> <<>>), next |-> 0, calls |-> <<>>,
            ret |-> Undefined, err |-> "none"]

\* A function of the template is invoked: f returns a new element, g a new
\* fragment holding one new element, e the result of empty().  The call is
\* recorded with its arguments, its result and the children its result came
\* with.
Invoke(arg, f, args, st) ==
    LET n == st.next + 1
        made == IF f.v = "g" THEN <<Obj("element", n + 1)>> ELSE <<>>
        r == IF f.v = "g" THEN Obj("fragment", n)
             ELSE IF f.v = "e" THEN empty
             ELSE Obj("element", n)
    IN [st EXCEPT !.next = IF f.v = "e" THEN @ ELSE n + Len(made),
                  !.heap = IF f.v = "g" THEN (n :> made) @@ @ ELSE @,
                  !.calls = Append(@, [arg |-> arg, fn |-> f, args |-> args,
                                       ret |-> r, kids |-> made]),
                  !.ret = r]

\* document.createDocumentFragment()
createDocumentFragment(st) ==
    [st EXCEPT !.next = @ + 1,
               !.heap = ((st.next + 1) :> <<>>) @@ @,
               !.ret = Obj("fragment", st.next + 1)]

\* An appendChild that appends nothing.
appendChild_dropped(st, p, c) == st

\* p.appendChild(c): a fragment gives its children away.
appendChild(st, p, c) ==
    [st EXCEPT !.heap = [m \in DOMAIN @ |->
        IF m = p.n
        THEN @[m] \o (IF c.type = "fragment" THEN @[c.n] ELSE <<c>>)
        ELSE IF c.type = "fragment" /\ m = c.n THEN <<>> ELSE @[m]]]

----------------------------------------------------------------------------
\* Expression helpers (index.ts 362-431)

\* An ifE that takes the other branch.
ifE_swapped(predicate, positive, negative) ==
    IF Truthy(predicate)
    THEN Invoke("negative", negative, <<>>, NewCall)
    ELSE Invoke("positive", positive, <<>>, NewCall)

\* (predicate) ? positive() : negative()
ifE(predicate, positive, negative) ==
    IF Truthy(predicate)
    THEN Invoke("positive", positive, <<>>, NewCall)
    ELSE Invoke("negative", negative, <<>>, NewCall)

\* An index counted from one.
arrayIndex_fromOne(j) == j

\* The index Array.prototype.forEach passes for the j-th item.
arrayIndex(j) == j - 1

\* A count that sees the items of arrays only.
entries_ofArrays(collection) ==
    IF collection.t = "array" THEN Len(collection.props) ELSE 0

\* The number of entries forE goes over: collection.length, or the length of
\* Object.keys(collection).
entries(collection) ==
    IF collection.t = "array" THEN Len(collection.props)
    ELSE Len(collection.keys)

RECURSIVE forEachEntry(_, _, _, _, _)
\* collection.forEach((v, k, a) => frag.appendChild(cb(v, k, a))), or
\* l.forEach(k => frag.appendChild(cb(collection[k], k, collection))), from
\* the j-th entry on.
forEachEntry(collection, cb, frag, j, st) ==
    IF j > entries(collection) THEN st
    ELSE LET args == IF collection.t = "array"
                     THEN <<collection.props[j], Num(arrayIndex(j)), collection>>
                     ELSE <<collection.props[collection.keys[j]],
                            Str(collection.keys[j]), collection>>
             called == Invoke("cb", cb, args, st)
         IN forEachEntry(collection, cb, frag, j + 1,
                         appendChild(called, frag, called.ret))

forE(collection, cb, cb2) ==
    LET made == createDocumentFragment(NewCall)
        frag == made.ret
        called == Invoke("cb2", cb2, <<>>, made)
        st == IF collection.t = "null"
              THEN [made EXCEPT !.err = "TypeError"]  \* Object.keys(null)
              ELSE IF typeof(collection) = "object"
              THEN IF entries(collection) > 0
                   THEN forEachEntry(collection, cb, frag, 1, made)
                   ELSE appendChild(called, frag, called.ret)
              ELSE made
    IN [st EXCEPT !.ret = IF st.err = "none" THEN frag ELSE Undefined]

switchE(value, cases) ==
    LET result == get(cases, value)
        defaul == get(cases, "default")
    IN [NewCall EXCEPT !.ret = IF Truthy(result) THEN result
                               ELSE IF Truthy(defaul) THEN defaul
                               ELSE Undefined]

----------------------------------------------------------------------------
\* Attribute paths (index.ts 176-182; Attributes in unnamed/part_000 351-368)

\* A path is a string, here the sequence of its tokens: names and separators.
Names == {"a", "b", "c"}

Separators == {":", "."}

RECURSIVE split(_, _)
\* path.split(sep): the pieces between the separators.
split(path, sep) ==
    IF \A k \in 1..Len(path) : path[k] # sep THEN <<path>>
    ELSE LET k == CHOOSE k \in 1..Len(path) :
                      path[k] = sep /\ \A m \in 1..(k - 1) : path[m] # sep
         IN <<SubSeq(path, 1, k - 1)>> \o split(SubSeq(path, k + 1, Len(path)), sep)

RECURSIVE join(_, _)
\* pieces.join(sep)
join(pieces, sep) ==
    IF pieces = <<>> THEN <<>>
    ELSE IF Len(pieces) = 1 THEN pieces[1]
    ELSE pieces[1] \o <<sep>> \o join(Tail(pieces), sep)

\* The property name a piece of a path spells: the bags use one-token names.
propertyName(piece) == IF Len(piece) = 1 THEN piece[1] ELSE ""

RECURSIVE seek(_, _)
seek(pieces, o) ==
    IF pieces = <<>> THEN o
    ELSE IF o.t # "object" \/ propertyName(Head(pieces)) \notin DOMAIN o.props
    THEN Undefined
    ELSE seek(Tail(pieces), o.props[propertyName(Head(pieces))])

\* property-seek's get(path, o): the value at the dotted path, undefined when
\* a segment is missing.
property_get(path, o) == seek(split(path, "."), o)

\* A read that gives the default whenever one is supplied.
read_defaultFirst(path, o, defaultValue) ==
    LET r == property_get(join(split(path, ":"), "."), o)
    IN IF NotNull(defaultValue) THEN defaultValue ELSE r

\* read(path, o, defaultValue) of index.ts
read(path, o, defaultValue) ==
    LET r == property_get(join(split(path, ":"), "."), o)
    IN IF NotNull(r) THEN r ELSE defaultValue

\* Attributes.prototype.read
Attributes_read(attrs, path, defaultValue) ==
    LET r == property_get(join(split(path, ":"), "."), attrs)
    IN IF NotNull(r) THEN r
       ELSE IF NotNull(defaultValue) THEN defaultValue ELSE Str("")

\* Attributes.prototype.has
Attributes_has(attrs, path) ==
    Bool(NotNull(Attributes_read(attrs, path, Undefined)))

----------------------------------------------------------------------------
\* node(): the html attributes (index.ts 275-293)

\* The element under construction: its attributes and the properties set on it.
createElement == [attrs |-> [x \in {} |-> ""], props |-> [x \in {} |-> Undefined],
                  err |-> "none"]

setAttribute(e, key, value) == [e EXCEPT !.attrs = (key :> value) @@ @]

\* An html key applied without the test for the empty string.
htmlAttribute_anyString(e, key, value) ==
    IF typeof(value) = "function" THEN [e EXCEPT !.props = (key :> value) @@ @]
    ELSE IF typeof(value) = "string" THEN setAttribute(e, key, value.v)
    ELSE IF typeof(value) = "boolean"
    THEN setAttribute(e, key, TemplateString(value))
    ELSE e

\* The body of Object.keys(attributes['html']).forEach for one key.
htmlAttribute(e, key, value) ==
    IF typeof(value) = "function" THEN [e EXCEPT !.props = (key :> value) @@ @]
    ELSE IF typeof(value) = "string"
    THEN IF value.v # "" THEN setAttribute(e, key, value.v) ELSE e
    ELSE IF typeof(value) = "boolean"
    THEN setAttribute(e, key, TemplateString(value))
    ELSE e

RECURSIVE htmlAttributes(_, _, _)
htmlAttributes(e, html, j) ==
    IF j > Len(html.keys) THEN e
    ELSE htmlAttributes(htmlAttribute(e, html.keys[j], html.props[html.keys[j]]),
                        html, j + 1)

\* node(tag, attributes, [], view) for attributes without wml.id and
\* wml.group: the element as returned.
node(attributes) ==
    LET html == get(attributes, "html")
    IN IF typeof(html) # "object" THEN createElement
       ELSE IF html.t = "null"
       THEN [createElement EXCEPT !.err = "TypeError"]  \* Object.keys(null)
       ELSE htmlAttributes(createElement, html, 1)

----------------------------------------------------------------------------
\* The helpers on their own: each behaviour is one call with its arguments
\* drawn from the sets below.

MaxItems == 3

Thunks == {Fn("f"), Fn("g")}

Items == {Str("x"), Num(0)}

Arrays == {Array(s) : s \in UNION {[1..n -> Items] : n \in 0..MaxItems}}

Objects == {Object(<<>>, <<>>),
            Object(<<"a">>, "a" :> Str("x")),
            Object(<<"b", "a">>, ("a" :> Str("x")) @@ ("b" :> Num(0)))}

Collections == Arrays \cup Objects \cup {Null, Undefined}

Predicates == {Undefined, Null, Bool(TRUE), Bool(FALSE), Num(0), Num(1),
               Str(""), Str("x"), Fn("f"), Array(<<>>)}

CaseKeys == {"x", "default"}

Cases == {Object(<<>>, c) : c \in UNION {[ks -> Thunks] : ks \in SUBSET CaseKeys}}

Paths == {<<n>> : n \in Names}
         \cup {<<n, s, m>> : n \in Names, s \in Separators, m \in Names}

Bags == {Object(<<>>, <<>>),
         Object(<<"a">>, "a" :> Object(<<"b">>, "b" :> Num(5))),
         Object(<<"a", "b", "c">>,
                ("a" :> Object(<<"b", "c">>, ("b" :> Num(0)) @@ ("c" :> Null)))
                @@ ("b" :> Str("")) @@ ("c" :> Bool(FALSE)))}

Defaults == {Undefined, Null, Str("fallback"), Num(0)}

HtmlKeys == {"disabled", "onclick"}

HtmlValues == {Str(""), Str("x"), Bool(TRUE), Bool(FALSE), Fn("f"), Num(1)}

Htmls == {Object(ks, v) : ks \in {<<>>}, v \in {<<>>}}
         \cup {Object(<<k>>, k :> v) : k \in HtmlKeys, v \in HtmlValues}
         \cup {Object(<<"disabled", "onclick">>,
                      ("disabled" :> v) @@ ("onclick" :> w)) :
                   v \in HtmlValues, w \in HtmlValues}

NodeAttributes == {Object(<<"wml">>, "wml" :> Object(<<>>, <<>>))}
                  \cup {Object(<<"wml", "html">>,
                               ("wml" :> Object(<<>>, <<>>)) @@ ("html" :> x)) :
                            x \in Htmls \cup {Null}}

HelperCall(fn, args, res) == [fn |-> fn, args |-> args, res |-> res, done |-> FALSE]

InitHelpers ==
    /\ InitView
    /\ \/ \E p \in Predicates, pos \in Thunks, neg \in Thunks :
             h = HelperCall("ifE", <<p, pos, neg>>, NewCall)
       \/ \E c \in Collections, e \in Thunks :
             h = HelperCall("forE", <<c, Fn("f"), e>>, NewCall)
       \/ \E v \in CaseKeys \cup {"y"}, c \in Cases :
             h = HelperCall("switchE", <<Str(v), c>>, NewCall)
       \/ \E p \in Paths, o \in Bags, d \in Defaults :
             h = HelperCall("read", <<p, o, d>>, Undefined)
       \/ \E p \in Paths, o \in Bags, d \in Defaults :
             h = HelperCall("Attributes.read", <<p, o, d>>, Undefined)
       \/ \E p \in Paths, o \in Bags :
             h = HelperCall("Attributes.has", <<p, o>>, Undefined)
       \/ \E a \in NodeAttributes :
             h = HelperCall("node", <<a>>, createElement)

Returns(fn, res) ==
    /\ h.fn = fn
    /\ ~h.done
    /\ h' = [h EXCEPT !.res = res, !.done = TRUE]
    /\ UNCHANGED view

CallIfE == Returns("ifE", ifE(h.args[1], h.args[2], h.args[3]))

CallForE == Returns("forE", forE(h.args[1], h.args[2], h.args[3]))

CallSwitchE == Returns("switchE", switchE(h.args[1].v, h.args[2]))

CallRead == Returns("read", read(h.args[1], h.args[2], h.args[3]))

CallAttributesRead ==
    Returns("Attributes.read", Attributes_read(h.args[2], h.args[1], h.args[3]))

CallAttributesHas ==
    Returns("Attributes.has", Attributes_has(h.args[2], h.args[1]))

CallNode == Returns("node", node(h.args[1]))

NextHelpers ==
    \/ CallIfE
    \/ CallForE
    \/ CallSwitchE
    \/ CallRead
    \/ CallAttributesRead
    \/ CallAttributesHas
    \/ CallNode

SpecHelpers == InitHelpers /\ [][NextHelpers]_vars

----------------------------------------------------------------------------
\* Content builders (index.ts 187-261)

\* A DOM node as a value handed to a builder, and back.
DomNode(x) == JS("node", x.type, x.n)

NodeOf(x) == Obj(x.v, x.n)

\* A node built before the call.
Built == Obj("element", -1)

\* The state a builder call starts in: no text node has been made either.
NewBuild == NewCall @@ [data |-> [x \in {} |-> ""]]

Digits == <<"0", "1", "2", "3", "4", "5", "6", "7", "8", "9">>

\* '' + value, for the values the builders are given (numbers 0 to 9).
toString(x) ==
    CASE x.t = "string" -> x.v
      [] x.t = "boolean" -> TemplateString(x)
      [] x.t = "number" -> Digits[x.n + 1]
      [] OTHER -> x.t

\* document.createTextNode(s)
createTextNode(s, st) ==
    [st EXCEPT !.next = @ + 1,
               !.data = ((st.next + 1) :> s) @@ @,
               !.ret = Obj("text", st.next + 1)]

\* A text that drops its value.
text_blank(value, st) == createTextNode("", st)

\* text(value)
text(value, st) == createTextNode(toString(value), st)

\* document.createElement(tag), as a node that can hold children.
newElement(st) ==
    [st EXCEPT !.next = @ + 1,
               !.heap = ((st.next + 1) :> <<>>) @@ @,
               !.ret = Obj("element", st.next + 1)]

\* An appendChild that puts the parent into the child.
appendValue_intoChild(st, e, child) ==
    IF child.t = "node" /\ child.n \in DOMAIN st.heap
    THEN [st EXCEPT !.heap[child.n] = Append(@, e)]
    ELSE IF child.t = "node" THEN st
    ELSE [st EXCEPT !.err = "TypeError"]

\* e.appendChild(child) for any value: what is not a Node is a TypeError.
appendValue(st, e, child) ==
    IF child.t = "node"
    THEN appendChild(st, e, NodeOf(child))
    ELSE [st EXCEPT !.err = "TypeError"]

\* adopt(child, e): the primitive cases have no break and run into the
\* 'object' case.
adopt(child, e, st) ==
    IF typeof(child) \in {"string", "number", "boolean"}
    THEN LET made == createTextNode(toString(child), st)
         IN appendValue(appendChild(made, e, made.ret), e, child)
    ELSE IF typeof(child) = "object"
    THEN appendValue(st, e, child)
    ELSE [st EXCEPT !.err = "TypeError"]

RECURSIVE adoptAll(_, _, _, _)
\* children.forEach(c => adopt(c, e)) from the j-th child on; an exception
\* ends it.
adoptAll(childs, e, j, st) ==
    IF j > Len(childs) \/ st.err # "none" THEN st
    ELSE adoptAll(childs, e, j + 1, adopt(childs[j], e, st))

\* node(tag, {wml: {}}, children, view): the new element with its children
\* adopted.
nodeChildren(childs) ==
    LET made == newElement(NewBuild)
        st == adoptAll(childs, made.ret, 1, made)
    IN [st EXCEPT !.ret = IF st.err = "none" THEN made.ret ELSE Undefined]

RECURSIVE boxAll(_, _, _, _)
\* content.forEach(c => frag.appendChild(c)) from the j-th on
boxAll(content, frag, j, st) ==
    IF j > Len(content) \/ st.err # "none" THEN st
    ELSE boxAll(content, frag, j + 1, appendValue(st, frag, content[j]))

\* box(...content)
box(content, st) ==
    LET made == createDocumentFragment(st)
        boxed == boxAll(content, made.ret, 1, made)
    IN [boxed EXCEPT !.ret = IF boxed.err = "none" THEN made.ret ELSE Undefined]

RECURSIVE domify(_, _)
RECURSIVE domifyEach(_, _, _, _)
\* a.map(domify) from the j-th item on: the results so far are in done.
domifyEach(a, j, done, st) ==
    IF j > Len(a.props) \/ st.err # "none"
    THEN [st EXCEPT !.ret = Array(done)]
    ELSE LET one == domify(a.props[j], st)
         IN domifyEach(a, j + 1,
                       IF one.err = "none" THEN Append(done, DomNode(one.ret))
                       ELSE done,
                       one)

\* domify(a)
domify(a, st) ==
    IF a.t = "array"
    THEN LET mapped == domifyEach(a, 1, <<>>, st)
         IN IF mapped.err = "none"
            THEN box(mapped.ret.props, mapped)
            ELSE [mapped EXCEPT !.ret = Undefined]
    ELSE IF typeof(a) \in {"string", "number", "boolean"} THEN text(a, st)
    ELSE IF a.t = "node" THEN [st EXCEPT !.ret = NodeOf(a)]
    ELSE IF a.t \in {"null", "undefined"} THEN [st EXCEPT !.ret = empty]
    ELSE [st EXCEPT !.err = "TypeError", !.ret = Undefined]

RECURSIVE flatten(_)
\* children.forEach(child => (child instanceof Array) ?
\*     childs.push.apply(childs, child) : childs.push(child))
flatten(childs) ==
    IF childs = <<>> THEN <<>>
    ELSE (IF Head(childs).t = "array" THEN Head(childs).props ELSE <<Head(childs)>>)
         \o flatten(Tail(childs))

\* widget(Constructor, attributes, children, view) on a view with the given
\* ids, groups and widgets; the Constructor's instances render with the
\* function rendering.  The result is the call's state together with the
\* view's fields as the call leaves them.
widget(rendering, attributes, childs, v) ==
    LET w == Obj("widget", NewBuild.next + 1)
        made == [NewBuild EXCEPT
                    !.next = @ + 1,
                    !.calls = <<[arg |-> "new", fn |-> Fn("Constructor"),
                                 args |-> <<attributes, Array(flatten(childs))>>,
                                 ret |-> w, kids |-> <<>>]>>]
        id == get(get(attributes, "wml"), "id")
        group == get(get(attributes, "wml"), "group")
        r == IF Truthy(id) THEN register(v.ids, id.v, w)
             ELSE [ok |-> TRUE, ids |-> v.ids]
    IN IF ~r.ok
       THEN [made EXCEPT !.err = "DuplicateIdentifier"] @@ v
       ELSE Invoke("render", rendering, <<>>, made)
            @@ [ids |-> r.ids,
                groups |-> IF Truthy(group)
                           THEN registerGroup(v.groups, group.v, w)
                           ELSE v.groups,
                widgets |-> pushWidget(v.widgets, w)]

----------------------------------------------------------------------------
\* The builders on their own

Values == {Str("x"), Num(0), Bool(FALSE), Null, Undefined, Fn("f"),
           DomNode(Built), DomNode(empty)}

\* No node is listed twice.
OnceEach(s) == \A j, k \in 1..Len(s) : (j # k /\ s[j].t = "node") => s[j] # s[k]

Lists(vs) == {s \in UNION {[1..n -> vs] : n \in 0..2} : OnceEach(s)}

Children == Lists(Values \cup {Array(<<Str("x")>>)})

Domified == Values \cup {Array(s) : s \in Lists(Values \cup {Array(<<Str("x"), Null>>)})}

\* The wml attributes of a widget() call.
Wmls == {Object(<<>>, <<>>),
         Object(<<"id">>, "id" :> Str("a")),
         Object(<<"id", "group">>, ("id" :> Str("")) @@ ("group" :> Str("g"))),
         Object(<<"id", "group">>, ("id" :> Str("a")) @@ ("group" :> Str("g")))}

WidgetAttributes == {Object(<<"wml">>, "wml" :> x) : x \in Wmls}

WidgetChildren == {<<>>, <<Str("x")>>,
                   <<Array(<<Str("x"), Num(0)>>), DomNode(Built)>>}

\* The view widget() is called with: with or without an element under "a",
\* in group "g" and a widget in its list.
Views == [ids : {EmptyMap, "a" :> Built},
          groups : {EmptyMap, "g" :> <<Built>>},
          widgets : {<<>>, <<Obj("widget", -2)>>}]

InitBuilders ==
    /\ InitView
    /\ \/ \E c \in Children : h = HelperCall("adopt", <<c>>, NewBuild)
       \/ \E a \in Domified : h = HelperCall("domify", <<a>>, NewBuild)
       \/ \E f \in Thunks, a \in WidgetAttributes, c \in WidgetChildren, v \in Views :
             h = HelperCall("widget", <<f, a, c, v>>, NewBuild @@ v)

CallAdopt == Returns("adopt", nodeChildren(h.args[1]))

CallDomify == Returns("domify", domify(h.args[1], NewBuild))

CallWidget == Returns("widget", widget(h.args[1], h.args[2], h.args[3], h.args[4]))

NextBuilders ==
    \/ CallAdopt
    \/ CallDomify
    \/ CallWidget

SpecBuilders == InitBuilders /\ [][NextBuilders]_vars

----------------------------------------------------------------------------
\* The group registry on its own: registerGroup calls on a constructed view,
\* made by a template or by any other caller.

GroupNames == {"g", "k"}

Elements == {Obj("element", -1), Obj("element", -2), Obj("widget", -3)}

NoGroupCalls == [fn |-> "registerGroup", calls |-> <<>>, ret |-> "none"]

InitRegistry == InitView /\ h = NoGroupCalls

\* view.registerGroup(name, e): returns this.
CallRegisterGroup(name, e) ==
    /\ h.fn = "registerGroup"
    /\ Len(h.calls) < MaxItems
    /\ groups' = registerGroup(groups, name, e)
    /\ h' = [h EXCEPT !.calls = Append(@, [name |-> name, e |-> e]),
                      !.ret = "this"]
    /\ UNCHANGED <<ids, widgets, tree, fragRoot, host, kids, pc, caller, i, inv,
                   built, next, ret, outgoing, log, removedCnt, renderedCnt,
                   lastReg, roots, retired, passOk, nest, context, stack>>

NextRegistry == \E name \in GroupNames, e \in Elements : CallRegisterGroup(name, e)

SpecRegistry == InitRegistry /\ [][NextRegistry]_vars

----------------------------------------------------------------------------
\* The shared empty Content: a view whose template returns empty(), beside
\* the builder and helper calls that are handed it.

\* The template returns empty(): the assignments of index.ts 515-519 for the
\* module's _empty fragment.
TplReturnEmpty ==
    /\ pc = "template"
    /\ tree' = empty
    /\ ids' = rootAssign(ids, empty)
    /\ kids' = IF empty.n \in DOMAIN kids THEN kids ELSE (empty.n :> <<>>) @@ kids
    /\ roots' = IF empty.n \in DOMAIN kids THEN kids[empty.n] ELSE <<>>
    /\ fragRoot' = IF empty.n \in DOMAIN kids /\ kids[empty.n] # <<>>
                   THEN Head(kids[empty.n]) ELSE Absent
    /\ pc' = "rendered"
    /\ i' = 1
    /\ log' = Append(log, Event("tree", empty))
    /\ lastReg' = NoReg
    /\ UNCHANGED <<groups, widgets, host, built, outgoing, removedCnt,
                   renderedCnt, retired, passOk, caller, inv, ret, next>>
    /\ UNCHANGED aux

\* Mentions the shared empty Content, or is turned into it.
OfEmpty(x) == x \in {Null, Undefined, DomNode(empty)}

InitShared ==
    /\ InitView
    /\ \/ \E c \in Children :
             /\ \E k \in 1..Len(c) : OfEmpty(c[k])
             /\ h = HelperCall("adopt", <<c>>, NewBuild)
       \/ \E a \in Domified :
             /\ OfEmpty(a) \/ (a.t = "array" /\ \E k \in 1..Len(a.props) : OfEmpty(a.props[k]))
             /\ h = HelperCall("domify", <<a>>, NewBuild)
       \/ \E c \in {Array(<<>>), Array(<<Str("x")>>), Object(<<>>, <<>>)},
             f \in {Fn("f"), Fn("e")} :
             h = HelperCall("forE", <<c, f, Fn("e")>>, NewCall)

NextShared ==
    \/ CallAdopt
    \/ CallDomify
    \/ CallForE
    \/ Render
    \/ RemovedDone
    \/ TplReturnEmpty
    \/ RenderReturn
    \/ Invalidate

SpecShared == InitShared /\ [][NextShared]_vars

----------------------------------------------------------------------------
\* Hooks that call back into the view.  A widget's removed() or rendered()
\* may call view.render() before it returns: the forEach of the outer
\* render() (index.ts 512, 521) is suspended on the array it was called on,
\* the inner render() runs to its end, and the outer forEach goes on with
\* the rest of that array.  One level of re-entry is followed.

\* The hook that was called last calls view.render().
HookRenders ==
    /\ stack = <<>>
    /\ pc \in {"removed", "rendered"}
    /\ i > 1
    /\ next < MaxObjects
    /\ stack' = <<[pc |-> pc, list |-> widgets, i |-> i, caller |-> caller]>>
    /\ StartRender("render")
    /\ UNCHANGED <<inv, nest, h, context>>

\* The inner render() has returned and so has the hook: the outer forEach
\* calls the hook of the next widget of its array.
ResumeStep ==
    /\ stack # <<>>
    /\ pc = "idle"
    /\ stack[1].i <= Len(stack[1].list)
    /\ LET f == stack[1]
           w == forEachItem(f.list, f.i)
       IN /\ log' = Append(log, Event(f.pc, w))
          /\ removedCnt' = IF f.pc = "removed" THEN Bump(removedCnt, w) ELSE removedCnt
          /\ renderedCnt' = IF f.pc = "rendered" THEN Bump(renderedCnt, w) ELSE renderedCnt
          /\ stack' = <<[f EXCEPT !.i = @ + 1]>>
    /\ lastReg' = NoReg
    /\ UNCHANGED <<ids, groups, widgets, tree, fragRoot, host, kids, pc, caller,
                   i, inv, built, next, ret, outgoing, roots, retired, passOk,
                   nest, h, context>>

\* The outer forEach is over.  After the removed loop the outer render()
\* goes on: this.widgets = [], this._fragRoot = null and its template; after
\* the rendered loop it returns this.tree.
ResumeDone ==
    /\ stack # <<>>
    /\ pc = "idle"
    /\ stack[1].i > Len(stack[1].list)
    /\ stack' = <<>>
    /\ lastReg' = NoReg
    /\ IF stack[1].pc = "removed"
       THEN /\ widgets' = resetWidgets(widgets)
            /\ fragRoot' = Absent
            /\ pc' = "template"
            /\ caller' = stack[1].caller
            /\ i' = 0
            /\ built' = <<>>
            /\ passOk' = FALSE
            /\ ret' = NoRet
            /\ log' = Append(log, templateCall(This, context))
       ELSE /\ ret' = Outcome(stack[1].caller, "none", "done")
            /\ UNCHANGED <<widgets, fragRoot, pc, caller, i, built, passOk, log>>
    /\ UNCHANGED <<ids, groups, tree, host, kids, inv, next, outgoing,
                   removedCnt, renderedCnt, roots, retired, nest, h, context>>

\* A view of plain widgets without identifiers, rendered by its owner and by
\* its widgets' hooks.
NextReentrant ==
    \/ stack = <<>> /\ Render
    \/ RemovedStep
    \/ RemovedDone
    \/ TplWidget([id |-> "", group |-> ""])
    \/ TplReturn("element")
    \/ RenderedStep
    \/ RenderReturn
    \/ HookRenders
    \/ ResumeStep
    \/ ResumeDone

SpecReentrant == Init /\ [][NextReentrant]_vars

----------------------------------------------------------------------------
\* Properties

\* The view is between calls and its last render pass ran to completion.
Rendered == pc = "idle" /\ passOk

\* The events of one kind in the pass's history, in order.
Events(kind) == SelectSeq(log, LAMBDA e : e.ev = kind)

\* The objects of a sequence of events.
Subjects(evs) == [k \in 1..Len(evs) |-> evs[k].x]

\* The template of the pass registered the identifier id itself.
TemplateRegistered(id) == \E k \in 1..Len(log) : log[k].ev = "register" /\ log[k].id = id

\* What the template of the pass registered under id.
TemplateValue(id) ==
    log[CHOOSE k \in 1..Len(log) : log[k].ev = "register" /\ log[k].id = id].x

\* C1: within one render pass, a register(id, x) whose id is not yet in the
\* identifier registry succeeds, returns the view and makes findById(id)
\* return exactly x; a register whose id is already in the registry fails with
\* DuplicateIdentifier and leaves the existing entry unchanged.
C1_RegisterContract ==
    lastReg.id # "" =>
        IF lastReg.had
        THEN /\ lastReg.threw
             /\ ret.err = "DuplicateIdentifier"
             /\ pc = "idle"
             /\ findById(ids, lastReg.id) = lastReg.prev
        ELSE /\ ~lastReg.threw
             /\ lastReg.returned = "view"
             /\ pc = "template"
             /\ findById(ids, lastReg.id) = lastReg.val

\* A second register of an identifier of the pass was made and refused.
C1_Witness ==
    /\ lastReg.id # ""
    /\ lastReg.had
    /\ lastReg.threw
    /\ lastReg.prev # lastReg.val
    /\ findById(ids, lastReg.id) = lastReg.prev

\* C2: in every render() call, removed is invoked on every widget of the
\* outgoing widget list, in list order, before the template is evaluated
\* (before any widget or node of the incoming pass is built), and rendered is
\* invoked on the widgets of the incoming pass, in construction order, only
\* after the template has returned the new tree.
C2_HookOrder ==
    /\ pc # "removed" =>
          /\ Len(log) >= Len(outgoing)
          /\ \A k \in 1..Len(outgoing) : log[k] = Event("removed", outgoing[k])
          /\ \A k \in (Len(outgoing) + 1)..Len(log) : log[k].ev # "removed"
    /\ pc = "removed" =>
          /\ Len(log) = i - 1
          /\ \A k \in 1..Len(log) : log[k] = Event("removed", outgoing[k])
    /\ \A k \in 1..Len(log) :
          log[k].ev = "rendered" =>
              /\ \E j \in 1..(k - 1) : log[j].ev = "tree"
              /\ \A j \in (k + 1)..Len(log) : log[j].ev = "rendered"
    /\ Rendered => Subjects(Events("rendered")) = Subjects(Events("construct"))

\* A pass has finished that called removed on the widgets the pass before it
\* left and rendered on widgets of its own.
C2_Witness ==
    /\ Rendered
    /\ Len(outgoing) >= 1
    /\ Len(Events("rendered")) >= 1
    /\ Len(Events("removed")) = Len(outgoing)

\* C3: after every successful render(), the widget list holds exactly the
\* widget instances widget() constructed during that pass, each once, in
\* construction order, and none that an earlier pass left in the list.
C3_WidgetList ==
    Rendered =>
        /\ widgets = Subjects(Events("construct"))
        /\ \A j, k \in 1..Len(widgets) : widgets[j] = widgets[k] => j = k
        /\ Range(widgets) \cap retired = {}

\* A pass has finished with widgets of its own, after a pass that left
\* widgets in the list.
C3_Witness ==
    /\ Rendered
    /\ retired # {}
    /\ Len(widgets) >= 1
    /\ Len(Events("construct")) >= 1

\* C4: for two consecutive render() calls, every widget the first call left
\* in the widget list has removed invoked exactly once, and before rendered
\* is invoked on any widget of the second call.
C4_RemovedOnce ==
    /\ \A w \in retired :
          Count(removedCnt, w) =
              IF pc = "removed" /\ \E k \in i..Len(outgoing) : outgoing[k] = w
              THEN 0 ELSE 1
    /\ \A k \in 1..Len(log) :
          log[k].ev = "rendered" =>
              \A w \in Range(outgoing) :
                  \E j \in 1..(k - 1) : log[j] = Event("removed", w)

\* A second call has invoked rendered on a widget of its own after the first
\* call left a widget in the list.
C4_Witness ==
    /\ outgoing # <<>>
    /\ Len(Events("rendered")) >= 1
    /\ \A w \in Range(outgoing) : Count(removedCnt, w) = 1

\* C5 as stated: after every successful render(), findById("root") returns
\* the top-level Content produced by that pass, for every template.
C5_RootIsTree ==
    Rendered => findById(ids, "root") = tree

\* C5, amended: after every successful render(), findById("root") returns
\* the top-level Content of the pass when the template registered nothing
\* under "root", and the element the template registered under "root" when
\* it did.
C5_RootIsTreeUnlessRegistered ==
    Rendered =>
        findById(ids, "root") =
            IF TemplateRegistered("root") THEN TemplateValue("root") ELSE tree

\* A pass whose template registered an inner element as "root" has finished.
C5_Witness ==
    /\ Rendered
    /\ TemplateRegistered("root")
    /\ TemplateValue("root") # tree
    /\ findById(ids, "root") = TemplateValue("root")

\* C6: after any successful render(), findById("root") is not absent,
\* whether or not the template registered "root", also after further
\* successful render() and invalidate() calls.
C6_RootPresent ==
    Rendered => findById(ids, "root") # Absent

\* A successful invalidate() after an earlier pass, with a template that
\* registered nothing under "root".
C6_Witness ==
    /\ Rendered
    /\ ret = Outcome("invalidate", "none", "done")
    /\ ~TemplateRegistered("root")
    /\ findById(ids, "root") = tree

\* The elements the template of the pass registered in the group name.
GroupOfPass(name) ==
    Subjects(SelectSeq(log, LAMBDA e : e.ev = "registerGroup" /\ e.id = name))

\* C7: the group registry is re-initialized at the start of every render pass:
\* after a pass, findGroupByName(name) returns exactly the elements registered
\* under name during that pass, in evaluation order, and none of an earlier
\* pass.
C7_GroupsOfPass ==
    Rendered => \A name \in Groups : findGroupByName(groups, name) = GroupOfPass(name)

\* C8: invalidate() on a view on which no render() has ever produced a tree
\* fails with NotRendered, and with no other error kind.
C8_NotRendered ==
    (ret.op = "invalidate" /\ next = 0) => ret.err = "NotRendered"

\* The top-level nodes of the current tree are children of the host.
RootAttached == roots # <<>> /\ Range(roots) \subseteq Range(host)

\* C9: invalidate() on a rendered view whose current root is not attached
\* under a host container fails with NotAttached, whatever the shape of the
\* root: it fails in its checks, so an invalidate() that goes on to render
\* has its root in the host.
C9_NotAttached ==
    /\ (ret.op = "invalidate" /\ ret.stage = "check" /\ tree # Absent
            /\ ~RootAttached)
          => ret.err = "NotAttached"
    /\ caller = "invalidate" => inv.parent = Host

\* hostBefore with the segment old replaced by new.
Replaced(hostBefore, old, new) ==
    LET k == Index(hostBefore, old[1])
    IN SubSeq(hostBefore, 1, k - 1) \o new
           \o SubSeq(hostBefore, k + Len(old), Len(hostBefore))

\* C10: when invalidate() succeeds on a view whose root is attached in a
\* host, the host's children afterwards are its children before with the old
\* rendered root replaced, at its place, by the new tree: nothing of the
\* previous pass remains and the other children keep their order.
C10_Replaced ==
    (/\ ret = Outcome("invalidate", "none", "done")
     /\ inv.parent = Host
     /\ inv.rootsBefore # <<>>
     /\ Range(inv.rootsBefore) \subseteq Range(inv.hostBefore))
        => /\ host = Replaced(inv.hostBefore, inv.rootsBefore, roots)
           /\ Range(inv.rootsBefore) \cap Range(host) = {}

\* The finished invalidate() was called with the view rendered and the
\* top-level nodes of its tree among the host's children.
CalledAttached ==
    /\ inv.parent = Host
    /\ inv.rootsBefore # <<>>
    /\ Range(inv.rootsBefore) \subseteq Range(inv.hostBefore)

\* C11: a view has no terminal state: once render() has succeeded and its
\* Content is attached to a host, every invalidate() whose template does not
\* raise succeeds and leaves the view rendered with its current root attached
\* to the host, so that invalidate() can be called again.
C11_NoTerminalState ==
    /\ (ret.op = "invalidate" /\ ret.stage = "check" /\ Rendered)
          => ~RootAttached
    /\ (ret.op = "invalidate" /\ ret.stage \in {"replace", "done"}
            /\ CalledAttached)
          => (ret.err = "none" /\ Rendered /\ RootAttached)

\* C12: when template evaluation raises during render() or invalidate() (a
\* DuplicateIdentifier from register), the error reaches the caller of
\* render()/invalidate() and no partial tree is exposed: from the start of the
\* call to the raise, the view's tree and the children of the host and of the
\* fragments stay what they were.
C12_FailedPassKeepsTree ==
    [][/\ (pc' \in {"removed", "template"}
              \/ (pc = "template" /\ pc' = "idle" /\ lastReg'.threw))
          => (tree' = tree /\ host' = host /\ kids' = kids)
       /\ lastReg'.threw
          => (pc' = "idle" /\ ret' = Outcome(caller, "DuplicateIdentifier", "render"))
      ]_vars

\* An invalidate() of an attached view has failed with DuplicateIdentifier,
\* and the tree and the host are those the call found.
C12_Witness ==
    /\ ret = Outcome("invalidate", "DuplicateIdentifier", "render")
    /\ lastReg.threw
    /\ tree # Absent
    /\ tree = inv.treeBefore
    /\ host = inv.hostBefore
    /\ RootAttached

\* C13: when a widget built during a view's render pass renders a child view
\* of its own that holds widgets, rendered is invoked on no widget, nested
\* ones included, until the outermost view's template has returned the new
\* tree.
C13_NoRenderedBeforeTree ==
    pc \in {"removed", "template"} => Events("rendered") = <<>>

\* A helper call that has returned.
Returned(fn) == h.fn = fn /\ h.done

\* What a path resolves to in a bag: the names of the path followed from the
\* bag, whichever separator stands between them.
Resolved(path, o) ==
    LET names == SelectSeq(path, LAMBDA t : t \in Names)
    IN seek([k \in 1..Len(names) |-> <<names[k]>>], o)

\* C14: switchE(value, cases) returns the result of invoking cases[value] when
\* that case is present, otherwise the result of invoking cases['default']
\* when present, otherwise an absent result without raising; one thunk is
\* invoked in the first two situations and none in the third.
C14_SwitchInvokesCase ==
    Returned("switchE") =>
        LET value == h.args[1].v
            cases == h.args[2].props
            chosen == IF value \in DOMAIN cases THEN <<cases[value]>>
                      ELSE IF "default" \in DOMAIN cases THEN <<cases["default"]>>
                      ELSE <<>>
        IN /\ h.res.err = "none"
           /\ Len(h.res.calls) = Len(chosen)
           /\ IF chosen = <<>>
              THEN h.res.ret = Undefined
              ELSE /\ h.res.calls[1].fn = chosen[1]
                   /\ h.res.ret = h.res.calls[1].ret

\* C15: ifE(predicate, positive, negative) invokes exactly one of the two
\* thunks, exactly once, positive iff predicate is truthy, and returns its
\* result; the other thunk is never invoked.
C15_IfInvokesOne ==
    Returned("ifE") =>
        /\ h.res.err = "none"
        /\ Len(h.res.calls) = 1
        /\ h.res.calls[1].arg = (IF Truthy(h.args[1]) THEN "positive" ELSE "negative")
        /\ h.res.calls[1].fn = (IF Truthy(h.args[1]) THEN h.args[2] ELSE h.args[3])
        /\ h.res.calls[1].args = <<>>
        /\ h.res.ret = h.res.calls[1].ret

\* ifE with a falsy predicate that is not false itself, and two different
\* thunks, has returned the negative thunk's result.
C15_Witness ==
    /\ Returned("ifE")
    /\ h.args[1] = Str("")
    /\ h.args[2] # h.args[3]
    /\ h.res.calls[1].arg = "negative"
    /\ h.res.ret.type = "fragment"

\* The call of forE was on an empty array.
EmptyArray == h.args[1].t = "array" /\ Len(h.args[1].props) = 0

C17_ForEachInOrder ==
    (Returned("forE") /\ h.args[1].t = "array" /\ Len(h.args[1].props) > 0) =>
        LET collection == h.args[1]
            n == Len(collection.props)
        IN /\ h.res.err = "none"
           /\ Len(h.res.calls) = n
           /\ \A k \in 1..n :
                 /\ h.res.calls[k].arg = "cb"
                 /\ h.res.calls[k].fn = h.args[2]
                 /\ h.res.calls[k].args = <<collection.props[k], Num(k - 1), collection>>
           /\ h.res.ret.type = "fragment"
           /\ h.res.heap[h.res.ret.n] = [k \in 1..n |-> h.res.calls[k].ret]
           /\ \A j, k \in 1..n : j # k => h.res.calls[j].ret # h.res.calls[k].ret

\* forE has returned from an array of at least two items, the first two
\* different.
C17_Witness ==
    /\ Returned("forE")
    /\ h.args[1].t = "array"
    /\ Len(h.args[1].props) >= 2
    /\ h.args[1].props[1] # h.args[1].props[2]
    /\ Len(h.res.heap[h.res.ret.n]) = Len(h.args[1].props)

\* C18: Attributes.has(path) is true iff the path resolves in the wrapped bag
\* to a present, non-null value; for a path absent from the bag, at the leaf
\* or at an intermediate segment, it is false.
C18_HasIffPresent ==
    Returned("Attributes.has") =>
        (h.res = Bool(TRUE) <=> NotNull(Resolved(h.args[1], h.args[2])))

\* A default was supplied in the call.
Supplied(d) == d # Undefined

\* C19 as stated: read(path, defaultValue?) returns the value the path
\* resolves to when it is present and non-null, otherwise defaultValue when
\* one is supplied, otherwise the empty string.
C19_ReadOrDefaultOrEmpty ==
    (Returned("read") \/ Returned("Attributes.read")) =>
        LET r == Resolved(h.args[1], h.args[2])
        IN h.res = (IF NotNull(r) THEN r
                    ELSE IF Supplied(h.args[3]) THEN h.args[3]
                    ELSE Str(""))

\* C19: both reads return the value the path resolves to when it is present
\* and non-null, falsy values included.  Otherwise read returns defaultValue
\* as it was given, undefined when none was; Attributes.read returns
\* defaultValue when it is non-null and the empty string otherwise.
C19_ReadOrDefault ==
    /\ Returned("read") =>
          LET r == Resolved(h.args[1], h.args[2])
          IN h.res = (IF NotNull(r) THEN r ELSE h.args[3])
    /\ Returned("Attributes.read") =>
          LET r == Resolved(h.args[1], h.args[2])
          IN h.res = (IF NotNull(r) THEN r
                      ELSE IF NotNull(h.args[3]) THEN h.args[3]
                      ELSE Str(""))

\* read of a two-name path written with ':' that resolves to 0 has returned
\* 0, and not the default supplied.
C19_Witness ==
    /\ Returned("read")
    /\ Len(h.args[1]) > 1
    /\ h.args[1][2] = ":"
    /\ h.args[3] = Str("fallback")
    /\ h.res = Num(0)

\* The html attributes of the call of node, when it was given some.
HtmlOf(attributes) == get(attributes, "html")

\* C20: node() applies each key of attributes.html by the type of its value:
\* an empty string never sets the attribute; a non-empty string sets the
\* attribute to that string; a boolean sets it to "true" or "false"; a
\* function becomes a property of the node and not an attribute.
C20_HtmlByType ==
    (Returned("node") /\ HtmlOf(h.args[1]).t = "object") =>
        LET html == HtmlOf(h.args[1])
        IN /\ h.res.err = "none"
           /\ \A key \in DOMAIN html.props :
                 LET value == html.props[key]
                 IN /\ value = Str("") => key \notin DOMAIN h.res.attrs
                    /\ (value.t = "string" /\ value # Str("")) =>
                          (key \in DOMAIN h.res.attrs /\ h.res.attrs[key] = value.v)
                    /\ value = Bool(TRUE) =>
                          (key \in DOMAIN h.res.attrs /\ h.res.attrs[key] = "true")
                    /\ value = Bool(FALSE) =>
                          (key \in DOMAIN h.res.attrs /\ h.res.attrs[key] = "false")
                    /\ value.t = "function" =>
                          /\ key \notin DOMAIN h.res.attrs
                          /\ key \in DOMAIN h.res.props
                          /\ h.res.props[key] = value

\* node has returned an element for html: {disabled: '', onclick: f}: it has
\* no attribute, and the property onclick.
C20_Witness ==
    /\ Returned("node")
    /\ HtmlOf(h.args[1]).t = "object"
    /\ DOMAIN HtmlOf(h.args[1]).props = {"disabled", "onclick"}
    /\ HtmlOf(h.args[1]).props["disabled"] = Str("")
    /\ HtmlOf(h.args[1]).props["onclick"] = Fn("f")
    /\ DOMAIN h.res.attrs = {}
    /\ DOMAIN h.res.props = {"onclick"}

RECURSIVE Leaves(_)
\* The values a list of children comes down to: arrays flattened, null left
\* out.
Leaves(values) ==
    IF values = <<>> THEN <<>>
    ELSE LET x == Head(values)
         IN (IF x.t = "array" THEN Leaves(x.props)
             ELSE IF x.t = "null" THEN <<>>
             ELSE <<x>>) \o Leaves(Tail(values))

\* The leaves that put a node of their own into the parent: not a fragment,
\* which gives its children.
Placed(values) == SelectSeq(Leaves(values), LAMBDA x : ~(x.t = "node" /\ x.v = "fragment"))

\* A leaf is text or a node.
Adoptable(x) == x.t \in {"string", "number", "boolean", "node"}

\* The nodes ks are the leaves xs: each primitive a text node of its string
\* form, each node itself.
Holds(ks, xs, data) ==
    /\ Len(ks) = Len(xs)
    /\ \A k \in 1..Len(xs) :
          IF xs[k].t = "node" THEN ks[k] = NodeOf(xs[k])
          ELSE /\ ks[k].type = "text"
               /\ ks[k].n \in DOMAIN data
               /\ data[ks[k].n] = toString(xs[k])

\* C21: node() adopts each entry of children by its type: a primitive adds one
\* text child and nothing else, a built node is appended as it is, null is
\* skipped without error, an array is flattened, any other value fails; the
\* children are in the order of the entries.
C21_AdoptByType ==
    Returned("adopt") =>
        IF \A k \in 1..Len(Leaves(h.args[1])) : Adoptable(Leaves(h.args[1])[k])
        THEN /\ h.res.err = "none"
             /\ Holds(h.res.heap[h.res.ret.n], Placed(h.args[1]), h.res.data)
        ELSE h.res.err # "none"

\* The elements the calls made so far registered under name, in call order.
RegisteredUnder(name) ==
    LET made == SelectSeq(h.calls, LAMBDA c : c.name = name)
    IN [k \in 1..Len(made) |-> made[k].e]

\* C22: registerGroup(name, element) never fails and returns the view; after
\* any sequence of registerGroup calls findGroupByName(name) returns the
\* elements registered under name in call order, repeated elements kept, and
\* an empty list, never an absent value, for a name nothing was registered
\* under.
C22_GroupsInCallOrder ==
    h.fn = "registerGroup" =>
        /\ h.calls # <<>> => h.ret = "this"
        /\ \A name \in GroupNames \cup {"none"} :
              /\ findGroupByName(groups, name) = RegisteredUnder(name)
              /\ RegisteredUnder(name) = <<>> => findGroupByName(groups, name) = <<>>

\* One element was registered twice under "g" and another between the two,
\* and nothing under "k".
C22_Witness ==
    /\ h.fn = "registerGroup"
    /\ Len(h.calls) = 3
    /\ h.calls[1] = h.calls[3]
    /\ h.calls[1].name = "g"
    /\ h.calls[2].name = "g"
    /\ h.calls[2].e # h.calls[1].e
    /\ findGroupByName(groups, "g") = <<h.calls[1].e, h.calls[2].e, h.calls[1].e>>
    /\ findGroupByName(groups, "k") = <<>>

Composed(values) == SelectSeq(Placed(values), LAMBDA x : x.t # "undefined")

\* C24: domify(value) returns, for an array, the composition in element order
\* of domify applied to each element; for a string, number or boolean, a text
\* leaf of its string form; for an existing node, that node; for null or
\* absent, the empty Content; for any other value it fails.
C24_DomifyByType ==
    Returned("domify") =>
        LET a == h.args[1]
            leaves == Leaves(<<a>>)
        IN IF \E k \in 1..Len(leaves) : ~Adoptable(leaves[k]) /\ leaves[k].t # "undefined"
           THEN h.res.err # "none"
           ELSE /\ h.res.err = "none"
                /\ a.t = "array" =>
                      /\ h.res.ret.type = "fragment"
                      /\ h.res.ret # empty
                      /\ Holds(h.res.heap[h.res.ret.n], Composed(<<a>>), h.res.data)
                /\ typeof(a) \in {"string", "number", "boolean"} =>
                      Holds(<<h.res.ret>>, <<a>>, h.res.data)
                /\ a.t = "node" => h.res.ret = NodeOf(a)
                /\ a.t \in {"null", "undefined"} => h.res.ret = empty

\* domify has returned for an array of a primitive and an array: a fragment
\* of two text nodes, the null of the inner array left out.
C24_Witness ==
    /\ Returned("domify")
    /\ h.args[1] = Array(<<Num(0), Array(<<Str("x"), Null>>)>>)
    /\ h.res.err = "none"
    /\ Len(h.res.heap[h.res.ret.n]) = 2
    /\ h.res.data[h.res.heap[h.res.ret.n][1].n] = "0"
    /\ h.res.data[h.res.heap[h.res.ret.n][2].n] = "x"

\* forE was called on a keyed mapping and has returned.
OnMapping == Returned("forE") /\ h.args[1].t = "object"

\* One cb call per key of the mapping, in enumeration order, with the value,
\* the key and the mapping, and the returned fragment holds the results in
\* that order.
PerKey ==
    LET collection == h.args[1]
        n == Len(collection.keys)
    IN /\ h.res.err = "none"
       /\ Len(h.res.calls) = n
       /\ \A k \in 1..n :
             /\ h.res.calls[k].arg = "cb"
             /\ h.res.calls[k].args = <<collection.props[collection.keys[k]],
                                        Str(collection.keys[k]), collection>>
       /\ h.res.ret.type = "fragment"
       /\ h.res.heap[h.res.ret.n] = [k \in 1..n |-> h.res.calls[k].ret]

C26_TemplateOncePerPass ==
    /\ context = Context
    /\ pc = "removed" => Events("template") = <<>>
    /\ (pc \in {"template", "rendered"} \/ Rendered) =>
          Events("template") = <<NamedEvent("template", This, context)>>

\* A second pass, started by invalidate(), has finished: its template was
\* called once.
C26_Witness ==
    /\ Rendered
    /\ ret = Outcome("invalidate", "none", "done")
    /\ Len(Events("template")) = 1
    /\ Events("tree") # <<>>

\* C27: empty() returns the same shared empty Content on every call, and no
\* runtime operation (box, domify, forE, node child adoption, render,
\* invalidate) adds a child to it: it has no children, whatever was done.
C27_SharedEmptyStaysEmpty ==
    /\ empty.n \in DOMAIN kids => kids[empty.n] = <<>>
    /\ h.res.heap[empty.n] = <<>>
    /\ (Returned("domify") /\ h.args[1].t \in {"null", "undefined"}) => h.res.ret = empty
    /\ (Returned("forE") /\ entries(h.args[1]) = 0) => h.res.calls[1].ret = empty
    /\ (tree # Absent) => tree = empty

\* A view has rendered the shared empty Content and failed to invalidate,
\* and domify has boxed the shared empty Content with a text.
C27_Witness ==
    /\ Rendered
    /\ tree = empty
    /\ ret.op = "invalidate"
    /\ Returned("domify")
    /\ h.args[1] = Array(<<DomNode(empty), Str("x")>>)
    /\ Len(h.res.heap[h.res.ret.n]) = 1
    /\ h.res.heap[empty.n] = <<>>

\* C28: even when a widget's rendered or removed hook synchronously calls
\* render() on the view that owns it, every widget instance receives rendered
\* at most once and removed at most once, and never receives rendered after
\* it has received removed.
C28_HooksOnceInOrder ==
    /\ [](\A n \in 1..MaxObjects :
             /\ Count(renderedCnt, Obj("widget", n)) <= 1
             /\ Count(removedCnt, Obj("widget", n)) <= 1)
    /\ [][\A n \in 1..MaxObjects :
             Count(renderedCnt', Obj("widget", n)) > Count(renderedCnt, Obj("widget", n))
                => Count(removedCnt, Obj("widget", n)) = 0]_vars

\* C29: removed() is called only on widgets that had rendered() called
\* before, whatever the sequence of render()/invalidate() calls, passes that
\* throw part-way through the template included.
C29_RemovedOnlyAfterRendered ==
    \A n \in 1..MaxObjects :
        Count(removedCnt, Obj("widget", n)) > 0
            => Count(renderedCnt, Obj("widget", n)) > 0

\* The last call threw out of the template: register() found the id taken
\* (index.ts 452-453) while this.template(...) was running (515).
TemplateFailed == pc = "idle" /\ ret.err = "DuplicateIdentifier"

\* C30: a pass that fails in the template leaves the registry and the widget
\* list as the last successful pass left them: the widget list is the one the
\* pass started with, and once a pass has succeeded findById("root") still
\* finds a node.
C30_FailedPassKeepsRegistry ==
    TemplateFailed =>
        /\ widgets = outgoing
        /\ tree # Absent => findById(ids, "root") # Absent

\* A step in which invalidate() throws from its checks (index.ts 487-493).
FailsInChecks ==
    /\ pc = "idle"
    /\ ret'.op = "invalidate"
    /\ ret'.stage = "check"
    /\ ret'.err \in {"TypeError", "NotRendered", "NotAttached"}

\* C31: an invalidate() that fails because the view was never rendered or its
\* root is not attached has not evaluated the template, has called no removed
\* or rendered hook, and has left the identifier registry, the group
\* registry, the widget list, the tree and the host container as they were.
C31_FailedInvalidateFrame ==
    [][FailsInChecks =>
          /\ log' = log
          /\ removedCnt' = removedCnt /\ renderedCnt' = renderedCnt
          /\ ids' = ids /\ groups' = groups /\ widgets' = widgets
          /\ tree' = tree /\ fragRoot' = fragRoot /\ roots' = roots
          /\ host' = host /\ kids' = kids
          /\ pc' = "idle"]_vars

\* invalidate() has failed with NotAttached on a rendered view that holds a
\* registered widget and a group.
C31_Witness ==
    /\ ret = Outcome("invalidate", "NotAttached", "check")
    /\ tree # Absent
    /\ widgets # <<>>
    /\ DOMAIN ids # {"root"}
    /\ DOMAIN groups # {}

\* The widgets of the outgoing output: those of the view's list when the
\* pass began, and those of the child views of the Components among them
\* that a completed pass has called rendered() on.
OutgoingOutput ==
    Range(outgoing)
        \cup UNION {Range(nest.views[c.n]) :
                        c \in {x \in Range(outgoing) :
                                  /\ x.n \in DOMAIN nest.views
                                  /\ Count(renderedCnt, x) > 0}}

\* C32: when a view is re-rendered, every widget that received rendered as
\* part of the outgoing output has received removed once the pass's removed
\* loop is over, the widgets of the child views of the outgoing Components
\* included.
C32_NestedRemoved ==
    pc # "removed" =>
        \A w \in OutgoingOutput :
            Count(renderedCnt, w) > 0 => Count(removedCnt, w) > 0

====
